---- MODULE Spec2Model ----
(***************************************************************************)
(* Model of proc-macro-type-name (src/src/lib.rs): the ToTypeName trait    *)
(* over &str, String and &Ident, the private to_pascal_case and            *)
(* capitalize_first_letter, and the proc_macro2 calls they make.           *)
(*                                                                         *)
(* Text is a sequence of ASCII codes (one byte per character).  A call     *)
(* either returns or panics; the panic site is kept in the outcome.        *)
(***************************************************************************)
EXTENDS Integers, Sequences, FiniteSets, TLC

VARIABLES self, op, span, pc, ret

vars == <<self, op, span, pc, ret>>

(* ---------------------------- bounds ----------------------------------- *)

\* longest text handed to an operation
MaxLen == 4

\* the bytes texts are drawn from: 'a' 'B' '_' '-' ' ' tab '1'
Alphabet == {97, 66, 95, 45, 32, 9, 49}

\* the location tags a caller can hold
Spans == {"call_site", "mixed_site"}

RECURSIVE TextsOfLen(_)
TextsOfLen(n) ==
    IF n = 0 THEN {<<>>}
    ELSE {Append(t, c) : t \in TextsOfLen(n - 1), c \in Alphabet}

Texts == UNION {TextsOfLen(n) : n \in 0..MaxLen}

(* ---------------------------- outcomes --------------------------------- *)

NoSpan == "none"

Ok(text) == [kind |-> "ok", text |-> text, span |-> NoSpan]

OkIdent(text, sp) == [kind |-> "ok", text |-> text, span |-> sp]

Panic(site) == [kind |-> site, text |-> <<>>, span |-> NoSpan]

NotCalled == [kind |-> "none", text |-> <<>>, span |-> NoSpan]

(* ------------------------ core and std helpers ------------------------- *)

\* u8::is_ascii_whitespace: space, \t, \n, form feed, \r
is_ascii_whitespace(c) == c \in {32, 9, 10, 12, 13}

AnyAsciiWhitespace_EndsOnly(bytes) ==
    /\ Len(bytes) > 0
    /\ \/ is_ascii_whitespace(bytes[1])
       \/ is_ascii_whitespace(bytes[Len(bytes)])

\* snake_case.as_bytes().iter().any(|c| c.is_ascii_whitespace())
AnyAsciiWhitespace(bytes) ==
    \E i \in 1..Len(bytes) : is_ascii_whitespace(bytes[i])

IsSeparator_UnderscoreOnly(c) == c = 95

\* the pattern &['_', '-']
IsSeparator(c) == c \in {95, 45}

RECURSIVE SplitFrom(_, _, _, _)
SplitFrom(s, i, cur, acc) ==
    IF i > Len(s) THEN Append(acc, cur)
    ELSE IF IsSeparator(s[i]) THEN SplitFrom(s, i + 1, <<>>, Append(acc, cur))
    ELSE SplitFrom(s, i + 1, Append(cur, s[i]), acc)

\* str::split: the pieces between matches, empty pieces included
split(s) == SplitFrom(s, 1, <<>>, <<>>)

\* char::to_uppercase on an ASCII byte
CharToUppercase(c) == IF c \in 97..122 THEN c - 32 ELSE c

\* str::to_uppercase
to_uppercase(s) == [i \in 1..Len(s) |-> CharToUppercase(s[i])]

\* s[a..b] and s[a..] on ASCII text are in bounds iff a <= b <= len
SliceInBounds(s, a, b) == a <= b /\ b <= Len(s)

\* s[a..b], zero-based and half-open
Slice(s, a, b) == SubSeq(s, a + 1, b)

(* ----------------------- capitalize_first_letter ---------------------- *)

capitalize_first_letter_AllUpper(s) ==
    IF ~SliceInBounds(s, 0, 1) THEN Panic("slice_out_of_range")
    ELSE Ok(to_uppercase(s))

capitalize_first_letter_EmptySafe(s) ==
    IF ~SliceInBounds(s, 0, 1) THEN Ok(<<>>)
    ELSE Ok(to_uppercase(Slice(s, 0, 1)) \o Slice(s, 1, Len(s)))

\* s[0..1].to_uppercase() + &s[1..]
capitalize_first_letter(s) ==
    IF ~SliceInBounds(s, 0, 1) THEN Panic("slice_out_of_range")
    ELSE Ok(to_uppercase(Slice(s, 0, 1)) \o Slice(s, 1, Len(s)))

(* ----------------------------- to_pascal_case -------------------------- *)

RECURSIVE PushParts(_, _, _)
\* the for loop: push each capitalized part, a panic ends the call
PushParts(parts, i, pascal_case) ==
    IF i > Len(parts) THEN Ok(pascal_case)
    ELSE LET r == capitalize_first_letter(parts[i])
         IN  IF r.kind # "ok" THEN r
             ELSE PushParts(parts, i + 1, pascal_case \o r.text)

to_pascal_case(snake_case) ==
    IF AnyAsciiWhitespace(snake_case) THEN Panic("assertion_failed")
    ELSE PushParts(split(snake_case), 1, <<>>)

(* ------------------------- proc_macro2::Ident -------------------------- *)

IsIdentStart(c) == c = 95 \/ c \in 65..90 \/ c \in 97..122

IsIdentContinue(c) == IsIdentStart(c) \/ c \in 48..57

\* what Ident::new accepts
IdentOk(string) ==
    /\ Len(string) > 0
    /\ IsIdentStart(string[1])
    /\ \A i \in 2..Len(string) : IsIdentContinue(string[i])

\* Ident::new(string, span): panics unless string is an identifier
IdentNew(string, sp) ==
    IF IdentOk(string) THEN OkIdent(string, sp) ELSE Panic("ident_invalid")

\* Ident's Display: raw identifiers render with the r# prefix
IdentToString(ident) ==
    IF ident.raw THEN <<114, 35>> \o ident.text ELSE ident.text

(* ------------------------------ ToTypeName ----------------------------- *)

to_type_name_IdentSym(s) == to_pascal_case(s.text)

\* the three impls: &str, String (as_str), &Ident (to_string().as_str())
to_type_name(s) ==
    IF s.shape = "Ident" THEN to_pascal_case(IdentToString(s))
    ELSE to_pascal_case(s.text)

to_type_ident_OwnSpan(s, sp) ==
    LET name == to_type_name(s)
    IN  IF name.kind # "ok" THEN name
        ELSE IdentNew(name.text, IF s.shape = "Ident" THEN s.span ELSE "call_site")

\* Ident::new(self.to_type_name().as_str(), span)
to_type_ident(s, sp) ==
    LET name == to_type_name(s)
    IN  IF name.kind # "ok" THEN name
        ELSE IdentNew(name.text, sp)

(* ------------------------------ the callers ---------------------------- *)

\* the values a caller can hold: any text, or an identifier token
\* (Ident::new and Ident::new_raw made it, so its symbol is an identifier,
\* and a raw one is not "_")
Selfs ==
    {[shape |-> sh, text |-> t, raw |-> FALSE, span |-> NoSpan] :
        sh \in {"str", "String"}, t \in Texts}
    \cup
    {s \in [shape : {"Ident"}, text : {x \in Texts : IdentOk(x)},
            raw : BOOLEAN, span : Spans] : s.raw => s.text # <<95>>}

Init ==
    /\ self \in Selfs
    /\ op = "none"
    /\ span = NoSpan
    /\ pc = "start"
    /\ ret = NotCalled

CallCapitalizeFirstLetter ==
    /\ pc = "start"
    /\ self.shape = "str"
    /\ op' = "capitalize_first_letter"
    /\ ret' = capitalize_first_letter(self.text)
    /\ pc' = "done"
    /\ UNCHANGED <<self, span>>

CallToPascalCase ==
    /\ pc = "start"
    /\ self.shape = "str"
    /\ op' = "to_pascal_case"
    /\ ret' = to_pascal_case(self.text)
    /\ pc' = "done"
    /\ UNCHANGED <<self, span>>

CallToTypeName ==
    /\ pc = "start"
    /\ op' = "to_type_name"
    /\ ret' = to_type_name(self)
    /\ pc' = "done"
    /\ UNCHANGED <<self, span>>

CallToTypeIdent ==
    /\ pc = "start"
    /\ \E sp \in Spans :
          /\ span' = sp
          /\ ret' = to_type_ident(self, sp)
    /\ op' = "to_type_ident"
    /\ pc' = "done"
    /\ UNCHANGED self

Next ==
    \/ CallCapitalizeFirstLetter
    \/ CallToPascalCase
    \/ CallToTypeName
    \/ CallToTypeIdent

Spec == Init /\ [][Next]_vars

TypeOK ==
    /\ self \in Selfs
    /\ pc \in {"start", "done"}
    /\ op \in {"none", "capitalize_first_letter", "to_pascal_case",
               "to_type_name", "to_type_ident"}
    /\ span \in Spans \cup {NoSpan}
    /\ ret.kind \in {"none", "ok", "assertion_failed", "slice_out_of_range",
                     "ident_invalid"}

(* ------------------------- vocabulary of the claims -------------------- *)

IsAsciiLetter(c) == c \in 65..90 \/ c \in 97..122

IsAsciiDigit(c) == c \in 48..57

IsSep(c) == c = 95 \/ c = 45

IsWs(c) == c \in {9, 10, 12, 13, 32}

HasWs(t) == \E i \in 1..Len(t) : IsWs(t[i])

OnlyLettersAndSeps(t) == \A i \in 1..Len(t) : IsAsciiLetter(t[i]) \/ IsSep(t[i])

SepCount(t) == Cardinality({i \in 1..Len(t) : IsSep(t[i])})

\* splitting t at the separators yields an empty word
HasEmptyWord(t) ==
    \/ t = <<>>
    \/ IsSep(t[1])
    \/ IsSep(t[Len(t)])
    \/ \E i \in 1..(Len(t) - 1) : IsSep(t[i]) /\ IsSep(t[i + 1])

Upper(c) == IF c >= 97 /\ c <= 122 THEN c - 32 ELSE c

RECURSIVE WordsJoined(_, _)
\* t from position i on, separators dropped, the first character of every
\* word upper-cased
WordsJoined(t, i) ==
    IF i > Len(t) THEN <<>>
    ELSE IF IsSep(t[i]) THEN WordsJoined(t, i + 1)
    ELSE <<IF i = 1 \/ IsSep(t[i - 1]) THEN Upper(t[i]) ELSE t[i]>>
         \o WordsJoined(t, i + 1)

\* the text the caller handed over, as text
Rendering(s) ==
    IF s.shape = "Ident" /\ s.raw THEN <<114, 35>> \o s.text ELSE s.text

Returned(o) == pc = "done" /\ op = o

(* -------------------------------- claims ------------------------------- *)

\* C1: on every input made only of ASCII letters and the separators '_' and
\* '-' (the empty input included) to_pascal_case returns and never panics.
C1_NeverAborts ==
    (Returned("to_pascal_case") /\ OnlyLettersAndSeps(self.text))
        => ret.kind = "ok"

\* C2: on every input with an ASCII whitespace character at any position
\* to_pascal_case panics on its assertion and yields no text.
C2_WhitespaceAborts ==
    (Returned("to_pascal_case") /\ HasWs(self.text))
        => ret = [kind |-> "assertion_failed", text |-> <<>>, span |-> NoSpan]

\* C2 witness: the assertion fired on whitespace that is neither leading nor
\* trailing.
C2_Witness ==
    /\ Returned("to_pascal_case")
    /\ Len(self.text) = 3
    /\ IsWs(self.text[2]) /\ ~IsWs(self.text[1]) /\ ~IsWs(self.text[3])
    /\ ret.kind = "assertion_failed"

\* C3: on every whitespace-free input to_pascal_case returns the words of
\* the input, each with its first character upper-cased and the rest as it
\* was, joined in order with nothing between them.
C3_ConvertIsConcat ==
    (Returned("to_pascal_case") /\ ~HasWs(self.text))
        => /\ ret.kind = "ok"
           /\ ret.text = WordsJoined(self.text, 1)

\* C4: empty words (empty input, leading, trailing or adjacent separators)
\* add nothing to the output and cause no error; the empty input gives the
\* empty output.
C4_EmptyWordsNoError ==
    (Returned("to_pascal_case") /\ ~HasWs(self.text) /\ HasEmptyWord(self.text))
        => /\ ret.kind = "ok"
           /\ self.text = <<>> => ret.text = <<>>

\* C5: whenever to_pascal_case returns, the output is as long as the input
\* less its separators, and holds no separator.
C5_LengthAndNoSeparators ==
    (Returned("to_pascal_case") /\ ret.kind = "ok")
        => /\ Len(ret.text) = Len(self.text) - SepCount(self.text)
           /\ \A i \in 1..Len(ret.text) : ~IsSep(ret.text[i])

\* C5 witness: to_pascal_case returned on an input with a separator between
\* two words, and the output is one character shorter.
C5_Witness ==
    /\ Returned("to_pascal_case")
    /\ self.text = <<97, 45, 66, 97>>
    /\ ret.kind = "ok"
    /\ Len(ret.text) = 3

\* C6: the token to_type_ident returns carries exactly the text of
\* to_type_name(self) and the location tag the caller passed, whatever the
\* shape of self.
C6_IdentCarriesNameAndSpan ==
    (Returned("to_type_ident") /\ ret.kind = "ok")
        => /\ to_type_name(self).kind = "ok"
           /\ ret.text = to_type_name(self).text
           /\ ret.text = WordsJoined(Rendering(self), 1)
           /\ ret.span = span

\* C6 witness: an identifier token with a separator in it was converted, and
\* the caller passed a tag other than the token's own.
C6_Witness ==
    /\ Returned("to_type_ident")
    /\ self.shape = "Ident"
    /\ self.text = <<97, 95, 97>>
    /\ span # self.span
    /\ ret = [kind |-> "ok", text |-> <<65, 65>>, span |-> span]

\* C7: to_type_name gives the same outcome on a borrowed text, an owned text
\* and an identifier token that render to the same text t: the outcome of
\* to_pascal_case(t), returned text or panic alike.
C7_VariantsAgree ==
    Returned("to_type_name")
        => LET t == Rendering(self)
           IN  /\ ret = to_pascal_case(t)
               /\ \A sh \in {"str", "String"} :
                     ret = to_type_name([shape |-> sh, text |-> t,
                                         raw |-> FALSE, span |-> NoSpan])

\* C7 witness: to_type_name returned on a raw identifier token, whose
\* rendering differs from its symbol.
C7_Witness ==
    /\ Returned("to_type_name")
    /\ self.shape = "Ident"
    /\ self.raw
    /\ ret.kind = "ok"
    /\ Len(ret.text) = Len(self.text) + 2

\* C8: when the converted text is no legal bare identifier (it is empty, or
\* begins with a digit), to_type_ident fails in the token constructor: the
\* conversion completes and only the constructor rejects the text.
C8_FailsAtConstruction ==
    (/\ Returned("to_type_ident")
     /\ ~HasWs(Rendering(self))
     /\ LET name == WordsJoined(Rendering(self), 1)
        IN  name = <<>> \/ IsAsciiDigit(name[1]))
        => ret.kind = "ident_invalid"

\* C9: on a non-empty string capitalize_first_letter returns a string of the
\* same length whose first character is the ASCII upper case of the input's
\* and whose later characters are the input's; a first character that is not
\* a lower-case letter leaves the string as it was, and capitalizing the
\* result again changes nothing.
C9_CapitalizeFirstOnly ==
    (Returned("capitalize_first_letter") /\ self.text # <<>>)
        => /\ ret.kind = "ok"
           /\ Len(ret.text) = Len(self.text)
           /\ ret.text[1] = Upper(self.text[1])
           /\ \A i \in 2..Len(self.text) : ret.text[i] = self.text[i]
           /\ ~(self.text[1] \in 97..122) => ret.text = self.text
           /\ capitalize_first_letter(ret.text) = ret

\* C9 witness: a string with a lower-case first letter, a separator and a
\* lower-case letter after it was capitalized.
C9_Witness ==
    /\ Returned("capitalize_first_letter")
    /\ self.text = <<97, 45, 97>>
    /\ ret.text = <<65, 45, 97>>

\* C10: to_pascal_case panics exactly when the input holds ASCII whitespace
\* or splits into at least one empty word; so every value it returns is
\* non-empty and begins with the upper-cased first character of the input.
C10_AbortsIffWsOrEmptyWord ==
    Returned("to_pascal_case")
        => /\ ret.kind # "ok" <=> (HasWs(self.text) \/ HasEmptyWord(self.text))
           /\ ret.kind = "ok" =>
                 /\ ret.text # <<>>
                 /\ ret.text[1] = Upper(self.text[1])

\* C10 witness: to_pascal_case panicked on a whitespace-free input with two
\* adjacent separators between letters.
C10_Witness ==
    /\ Returned("to_pascal_case")
    /\ self.text = <<97, 95, 95, 97>>
    /\ ret.kind = "slice_out_of_range"

====
